---- MODULE Spec2Model ----
(***************************************************************************)
(* Model of src/tdc1_gui.py: the MainWindow of the TDC1 counter GUI, the   *)
(* logWorker objects it moves to worker threads, the queued Qt signals     *)
(* between them, the sliding-window plot buffers and the g2 histogram.     *)
(*                                                                         *)
(* Conventions                                                             *)
(*  - Python None for an object reference is 0 (logger, logger_thread) or  *)
(*    the record NoDevice (the device object).                             *)
(*  - Times are kept in milliseconds: integration_time = 1 (second) is     *)
(*    1000, and int_time * 1e-3 seconds is int_time milliseconds.          *)
(*  - A float of a histogram is kept as a number of 1/HistScale units.     *)
(*  - The main thread runs one handler at a time (Qt event loop); a worker *)
(*    thread runs the slot log_which_data of its logWorker.  A handler is  *)
(*    one action, except liveStart's stop branch, which sleeps while the   *)
(*    worker threads keep running and is therefore split at the sleep.     *)
(*  - Radio buttons and the plot widgets (pyqtgraph) are not modelled.     *)
(***************************************************************************)
EXTENDS Integers, Sequences, FiniteSets, TLC

\* ---------------------------------------------------------------- bounds
MaxWorkers == 2      \* logWorker objects created in one run
MaxPolls   == 2      \* device polls started in one run
MaxClicks  == 5      \* user events (clicks, combo box and spin box changes)
Prefill    == 499    \* samples already plotted when the window run starts

\* ------------------------------------------------------ program constants
PLT_SAMPLES == 500
ARANGE_START == 0
ARANGE_STOP == 1000
ARANGE_STEP == 2
SPIN_DEFAULT == 1000
HistScale == 2

\* ------------------------------------------------------------ input sets
DevList    == {"COM4"}
NoDevText  == "Select your device"
DevTexts   == {NoDevText} \cup DevList
Modes      == {"singles", "pairs"}
NoModeText == "Select mode"
ModeTexts  == {NoModeText} \cup Modes
SpinValues == {SPIN_DEFAULT, 5000}
FileNames  == {"a.csv"}
DialogResults == {""} \cup FileNames
CountsSet  == {<<0, 1, 2, 3>>, <<7, 6, 5, 4>>}
HistKinds  == {1, 2}
\* the one reading and the one histogram of the specification of the whole
\* window, whose claims are about control and not about the values read
OneCounts  == {<<0, 1, 2, 3>>}
OneKind    == {1}
Workers    == 1..MaxWorkers

NoDevice == [open |-> FALSE, path |-> "", mode |-> ""]
NoArgs   == [file_name |-> "", device_path |-> "", log_flag |-> FALSE,
             dev_mode |-> "", tdc1_dev |-> NoDevice]

\* ------------------------------------------------------- pure operators
Min(a, b) == IF a < b THEN a ELSE b

\* np.arange(start, stop, step) for a positive step
Arange(start, stop, step) ==
    [i \in 1..((stop - start + step - 1) \div step) |-> start + (i - 1) * step]

\* np.zeros_like(a)
ZerosLike(a) == [i \in 1..Len(a) |-> 0]

X0 == Arange(ARANGE_START, ARANGE_STOP, ARANGE_STEP)

\* ndarray.astype(np.int32) of a float given in 1/HistScale units:
\* truncation toward zero
AsInt32(v) == IF v >= 0 THEN v \div HistScale ELSE -((-v) \div HistScale)

\* the histogram the device returns for count_g2, one value per bin
G2Histogram(k) ==
    [i \in 1..Len(X0) |-> IF k = 1 THEN ((i % 4) * 3) - 3 ELSE (i % 3) * 5 - 1]

\* the counts of the t-th poll of the stream that filled the window
TickCounts(t) == <<t % 3, t % 5, t % 7, t>>

\* the device object a successful tdc1.TimeStampTDC1(path) returns
NewDevice(path) == [open |-> TRUE, path |-> path, mode |-> "default"]

\* tdc1.TimeStampTDC1(path) raises unless path names a connected device
CanOpen(path) == path \in DevList

\* ----------------------------------------------------------------- state
VARIABLES
    \* MainWindow fields
    tdc1_dev, dev_mode, device_path, integration_time, logfile_name,
    log_flag, acq_flag, logger, logger_thread,
    \* widgets
    liveStart_Button, selectLogfile_Button, selectLogfile_enabled,
    logfileLabel, devCombobox, modesCombobox, integrationSpinBox,
    \* plot data
    x, y1, y2, y3, y4, y0,
    \* position of the main thread: "idle" in the event loop, "stop_sleep"
    \* inside liveStart's time.sleep(1)
    ui_pc,
    \* signals queued for the main thread, in emission order
    ui_queue,
    \* logWorker objects: number constructed, position of each one's thread,
    \* fields, arguments of the queued log_which_data call, value last polled
    nworkers, pc, active_flag, int_time, args, polled,
    \* the file system: per file name, whether it exists and its lines
    fs,
    \* history (not program state): per worker, polls started, polls
    \* returned, signals emitted, rows appended, file opens, whether
    \* thread_finished was emitted, and what Live Stop saw; polls started
    \* since the initial state; samples and histograms delivered since the
    \* last reset
    polls_started, polls_done, emitted, rows, fileops, finished, stop_seen,
    polls_total, delivered, g2_delivered,
    \* number of user events handled so far
    clicks

ui_vars == <<tdc1_dev, dev_mode, device_path, integration_time, logfile_name,
             log_flag, acq_flag, logger, logger_thread, liveStart_Button,
             selectLogfile_Button, selectLogfile_enabled, logfileLabel,
             devCombobox, modesCombobox, integrationSpinBox, ui_pc,
             clicks>>
plot_vars == <<x, y1, y2, y3, y4, y0, delivered, g2_delivered>>
worker_vars == <<nworkers, pc, active_flag, int_time, args, polled>>
hist_vars == <<polls_started, polls_done, emitted, rows, fileops, finished,
               stop_seen, polls_total>>
vars == <<ui_vars, plot_vars, worker_vars, hist_vars, ui_queue, fs>>

\* stop_seen of a worker Live Stop has not reached; Live Stop records
\* whether the worker was inside its loop ("running") or not yet ("early"),
\* and the polls it had started and the signals it had emitted
NotStopped == [seen |-> "no", polls |-> 0, emitted |-> 0]

\* positions of a worker thread inside one of the three polling loops
LoopPcs == {"while", "polling", "emit", "write", "ifbreak"}

\* ------------------------------------------------------- faulty variants
\* Faulty variants of the definitions below, each used to show that a claim
\* depends on the code it is about.

\* update_data_from_thread without "self.y4 = self.y4[1:]"
UpdateBuffers_keeps_y4(b, data) ==
    LET full == Len(b.x) = PLT_SAMPLES
        x1 == IF full
              THEN LET t == Tail(b.x) IN Append(t, t[Len(t)] + 1)
              ELSE Append(b.x, Len(b.x) + 1)
        cut(y) == IF full THEN Tail(y) ELSE y
    IN [x  |-> x1,
        y1 |-> Append(cut(b.y1), data[1]),
        y2 |-> Append(cut(b.y2), data[2]),
        y3 |-> Append(cut(b.y3), data[3]),
        y4 |-> Append(b.y4, data[4])]

\* update_data_from_thread numbering a sample by the window's length also
\* when the window is full
UpdateBuffers_renumbers(b, data) ==
    LET full == Len(b.x) = PLT_SAMPLES
        x1 == IF full
              THEN LET t == Tail(b.x) IN Append(t, Len(t) + 1)
              ELSE Append(b.x, Len(b.x) + 1)
        cut(y) == IF full THEN Tail(y) ELSE y
    IN [x  |-> x1,
        y1 |-> Append(cut(b.y1), data[1]),
        y2 |-> Append(cut(b.y2), data[2]),
        y3 |-> Append(cut(b.y3), data[3]),
        y4 |-> Append(cut(b.y4), data[4])]

\* updateHistogram with "self.y0 = incremental_y_int"
AddHistogram_overwrites(y, h) == [i \in 1..Len(y) |-> AsInt32(h[i])]

\* -------------------------------------------------- sliding-window update
\* the body of update_data_from_thread on the five buffers
UpdateBuffers(b, data) ==
    LET full == Len(b.x) = PLT_SAMPLES
        x1 == IF full
              THEN LET t == Tail(b.x) IN Append(t, t[Len(t)] + 1)
              ELSE Append(b.x, Len(b.x) + 1)
        cut(y) == IF full THEN Tail(y) ELSE y
    IN [x  |-> x1,
        y1 |-> Append(cut(b.y1), data[1]),
        y2 |-> Append(cut(b.y2), data[2]),
        y3 |-> Append(cut(b.y3), data[3]),
        y4 |-> Append(cut(b.y4), data[4])]

\* the body of updateHistogram on y0
AddHistogram(y, h) == [i \in 1..Len(y) |-> y[i] + AsInt32(h[i])]

\* ------------------------------------------------------------------ Init
\* MainWindow.__init__ and initUI; no logWorker exists yet
Init ==
    /\ tdc1_dev = NoDevice
    /\ dev_mode = ""
    /\ device_path = ""
    /\ integration_time = 1000
    /\ logfile_name = ""
    /\ log_flag = FALSE
    /\ acq_flag = FALSE
    /\ logger = 0
    /\ logger_thread = 0
    /\ liveStart_Button = "Live Start"
    /\ selectLogfile_Button = "Select Logfile"
    /\ selectLogfile_enabled = TRUE
    /\ logfileLabel = ""
    /\ devCombobox = NoDevText
    /\ modesCombobox = NoModeText
    /\ integrationSpinBox = SPIN_DEFAULT
    /\ x = <<>> /\ y1 = <<>> /\ y2 = <<>> /\ y3 = <<>> /\ y4 = <<>>
    /\ y0 = ZerosLike(X0)
    /\ ui_pc = "idle"
    /\ ui_queue = <<>>
    /\ nworkers = 0
    /\ pc = [w \in Workers |-> "none"]
    /\ active_flag = [w \in Workers |-> FALSE]
    /\ int_time = [w \in Workers |-> 1000]
    /\ args = [w \in Workers |-> NoArgs]
    /\ polled = [w \in Workers |-> [c |-> <<0, 0, 0, 0>>, h |-> 0]]
    /\ fs = [f \in FileNames |-> [exists |-> FALSE, lines |-> <<>>]]
    /\ polls_started = [w \in Workers |-> 0]
    /\ polls_done = [w \in Workers |-> 0]
    /\ emitted = [w \in Workers |-> 0]
    /\ rows = [w \in Workers |-> 0]
    /\ fileops = [w \in Workers |-> 0]
    /\ finished = [w \in Workers |-> FALSE]
    /\ stop_seen = [w \in Workers |-> NotStopped]
    /\ polls_total = 0
    /\ delivered = <<>>
    /\ g2_delivered = <<>>
    /\ clicks = 0

\* ------------------------------------------------ MainWindow: handlers
\* one more user event
Click == clicks < MaxClicks /\ clicks' = clicks + 1

\* resetDataAndPlots, on the plot data
resetDataAndPlots ==
    /\ x' = <<>> /\ y1' = <<>> /\ y2' = <<>> /\ y3' = <<>> /\ y4' = <<>>
    /\ y0' = ZerosLike(X0)
    /\ delivered' = <<>>
    /\ g2_delivered' = <<>>

\* resetGUIelements: setValue(SPIN_DEFAULT) fires update_intTime when the
\* value changes, which happens after the internal variables were reset
resetGUIelements ==
    /\ selectLogfile_enabled' = TRUE
    /\ logfileLabel' = ""
    /\ integrationSpinBox' = SPIN_DEFAULT

\* WeakResetInternalVariables and StrongResetInternalVariables agree on these
\* (resetWorkerAndThread included); the integration time a reset leaves is
\* 1 second, also after resetGUIelements' update_intTime(1000)
resetWorkerAndThread ==
    /\ logger' = 0
    /\ logger_thread' = 0

ResetInternalCommon ==
    /\ integration_time' = 1000
    /\ logfile_name' = ""
    /\ resetWorkerAndThread

\* faulty variant: selectDevice without "if self.acq_flag == False"
selectDevice_unguarded(devPath) ==
    /\ ui_pc = "idle"
    /\ Click
    /\ devPath # devCombobox          \* currentTextChanged
    /\ devCombobox' = devPath
    /\ IF TRUE
       THEN /\ ResetInternalCommon
            /\ dev_mode' = ""
            /\ resetDataAndPlots
            /\ resetGUIelements
            /\ IF devPath # NoDevText
               THEN /\ tdc1_dev' = NewDevice(devPath)
                    /\ device_path' = devPath
               ELSE /\ tdc1_dev' = NoDevice
                    /\ device_path' = ""
       ELSE UNCHANGED <<tdc1_dev, dev_mode, device_path, integration_time,
                        logfile_name, logger, logger_thread,
                        selectLogfile_enabled, logfileLabel,
                        integrationSpinBox, plot_vars>>
    /\ UNCHANGED <<log_flag, acq_flag, liveStart_Button, selectLogfile_Button,
                   modesCombobox, ui_pc, ui_queue, worker_vars, hist_vars, fs>>

selectDevice(devPath) ==
    /\ ui_pc = "idle"
    /\ Click
    /\ devPath # devCombobox          \* currentTextChanged
    /\ devCombobox' = devPath
    /\ IF acq_flag = FALSE
       THEN /\ ResetInternalCommon
            /\ dev_mode' = ""
            /\ resetDataAndPlots
            /\ resetGUIelements
            /\ IF devPath # NoDevText
               THEN /\ tdc1_dev' = NewDevice(devPath)
                    /\ device_path' = devPath
               ELSE /\ tdc1_dev' = NoDevice
                    /\ device_path' = ""
       ELSE UNCHANGED <<tdc1_dev, dev_mode, device_path, integration_time,
                        logfile_name, logger, logger_thread,
                        selectLogfile_enabled, logfileLabel,
                        integrationSpinBox, plot_vars>>
    /\ UNCHANGED <<log_flag, acq_flag, liveStart_Button, selectLogfile_Button,
                   modesCombobox, ui_pc, ui_queue, worker_vars, hist_vars, fs>>

selectDeviceMode(newMode) ==
    /\ ui_pc = "idle"
    /\ Click
    /\ newMode # modesCombobox        \* currentTextChanged
    /\ modesCombobox' = newMode
    /\ IF acq_flag = FALSE
       THEN /\ ResetInternalCommon
            /\ resetDataAndPlots
            /\ resetGUIelements
            /\ IF newMode # NoModeText
               THEN IF tdc1_dev = NoDevice
                    THEN IF CanOpen(device_path)
                         THEN /\ tdc1_dev' = [NewDevice(device_path)
                                                EXCEPT !.mode = newMode]
                              /\ dev_mode' = newMode
                         ELSE \* the constructor raises: the slot ends here
                              UNCHANGED <<tdc1_dev, dev_mode>>
                    ELSE /\ tdc1_dev' = [tdc1_dev EXCEPT !.mode = newMode]
                         /\ dev_mode' = newMode
               ELSE UNCHANGED <<tdc1_dev, dev_mode>>
       ELSE UNCHANGED <<tdc1_dev, dev_mode, integration_time, logfile_name,
                        logger, logger_thread, selectLogfile_enabled,
                        logfileLabel, integrationSpinBox, plot_vars>>
    /\ UNCHANGED <<device_path, log_flag, acq_flag, liveStart_Button,
                   selectLogfile_Button, devCombobox, ui_pc, ui_queue,
                   worker_vars, hist_vars, fs>>

update_intTime(v) ==
    /\ ui_pc = "idle"
    /\ Click
    /\ v # integrationSpinBox         \* valueChanged
    /\ integrationSpinBox' = v
    /\ integration_time' = v
    /\ int_time' = IF logger # 0 THEN [int_time EXCEPT ![logger] = v]
                   ELSE int_time
    /\ UNCHANGED <<tdc1_dev, dev_mode, device_path, logfile_name, log_flag,
                   acq_flag, logger, logger_thread, liveStart_Button,
                   selectLogfile_Button, selectLogfile_enabled, logfileLabel,
                   devCombobox, modesCombobox, ui_pc, plot_vars, ui_queue,
                   nworkers, pc, active_flag, args, polled, hist_vars, fs>>

\* startLogging: a new logWorker in a new thread, and the queued
\* logging_requested call with the window's current parameters
startLogging(dev) ==
    LET w == nworkers + 1 IN
    /\ nworkers' = w
    /\ logger' = w
    /\ logger_thread' = w
    /\ pc' = [pc EXCEPT ![w] = "queued"]
    /\ active_flag' = [active_flag EXCEPT ![w] = FALSE]
    /\ int_time' = [int_time EXCEPT ![w] = integrationSpinBox]
    /\ args' = [args EXCEPT ![w] =
                  [file_name |-> logfile_name, device_path |-> device_path,
                   log_flag |-> log_flag, dev_mode |-> dev_mode,
                   tdc1_dev |-> dev]]

\* liveStart, "currently live plotting": up to time.sleep(1)
liveStart_stop ==
    /\ ui_pc = "idle"
    /\ Click
    /\ acq_flag = TRUE /\ liveStart_Button = "Live Stop"
    /\ acq_flag' = FALSE
    /\ active_flag' = [active_flag EXCEPT ![logger] = FALSE]
    /\ selectLogfile_enabled' = TRUE
    /\ liveStart_Button' = "Live Start"
    /\ ui_pc' = "stop_sleep"
    /\ stop_seen' = [stop_seen EXCEPT ![logger] =
                       [seen |-> IF pc[logger] \in LoopPcs THEN "running"
                                 ELSE "early",
                        polls |-> polls_started[logger],
                        emitted |-> emitted[logger]]]
    /\ UNCHANGED <<tdc1_dev, dev_mode, device_path, integration_time,
                   logfile_name, log_flag, logger, logger_thread,
                   selectLogfile_Button, logfileLabel, devCombobox,
                   modesCombobox, integrationSpinBox, plot_vars, ui_queue,
                   nworkers, pc, int_time, args, polled, polls_started,
                   polls_done, emitted, rows, fileops, finished, polls_total,
                   fs>>

\* liveStart, "currently live plotting": after time.sleep(1)
liveStart_wake ==
    /\ ui_pc = "stop_sleep"
    /\ UNCHANGED clicks
    /\ tdc1_dev' = NoDevice
    /\ logger' = 0
    /\ logger_thread' = 0
    /\ ui_pc' = "idle"
    \* the window held the only reference to the logWorker: one whose slot
    \* has not started is destroyed with its queued call; one whose slot is
    \* running is kept alive by that call until it returns
    /\ pc' = IF pc[logger] = "queued" THEN [pc EXCEPT ![logger] = "destroyed"]
             ELSE pc
    /\ UNCHANGED <<dev_mode, device_path, integration_time, logfile_name,
                   log_flag, acq_flag, liveStart_Button, selectLogfile_Button,
                   selectLogfile_enabled, logfileLabel, devCombobox,
                   modesCombobox, integrationSpinBox, plot_vars, ui_queue,
                   nworkers, active_flag, int_time, args, polled, hist_vars,
                   fs>>

\* liveStart, "not currently live plotting"
liveStart_start ==
    /\ ui_pc = "idle"
    /\ Click
    /\ ~(acq_flag = TRUE /\ liveStart_Button = "Live Stop")
    /\ nworkers < MaxWorkers
    \* tdc1.TimeStampTDC1(currentText) raises on the placeholder text: the
    \* slot then ends before it changed anything
    /\ tdc1_dev = NoDevice => CanOpen(devCombobox)
    /\ LET dev == IF tdc1_dev = NoDevice THEN NewDevice(devCombobox)
                  ELSE tdc1_dev
       IN /\ tdc1_dev' = dev
          /\ startLogging(dev)
    /\ acq_flag' = TRUE
    /\ resetDataAndPlots
    /\ selectLogfile_enabled' = FALSE
    /\ liveStart_Button' = "Live Stop"
    /\ UNCHANGED <<dev_mode, device_path, integration_time, logfile_name,
                   log_flag, selectLogfile_Button, logfileLabel, devCombobox,
                   modesCombobox, integrationSpinBox, ui_pc, ui_queue, polled,
                   hist_vars, fs>>

\* selectLogfile; chosen is what the save-file dialog returns.  (The code
\* looks the dialog up as QtGui.QFileDialog, which PyQt5 does not provide:
\* the lookup would raise before any assignment.  The branch is modelled
\* with the dialog's result; no reachable state takes it.)
selectLogfile(chosen) ==
    /\ ui_pc = "idle"
    /\ Click
    /\ selectLogfile_enabled
    /\ IF acq_flag = FALSE /\ selectLogfile_Button = "Select logfile"
       THEN /\ logfile_name' = chosen
            /\ logfileLabel' = chosen
            /\ IF chosen # ""
               THEN /\ log_flag' = TRUE
                    /\ selectLogfile_Button' = "Unselect logfile"
               ELSE UNCHANGED <<log_flag, selectLogfile_Button>>
       ELSE IF acq_flag = FALSE /\ selectLogfile_Button = "Unselect logfile"
       THEN /\ logfileLabel' = ""
            /\ selectLogfile_Button' = "Select logfile"
            /\ UNCHANGED <<logfile_name, log_flag>>
       ELSE UNCHANGED <<logfile_name, logfileLabel, log_flag,
                        selectLogfile_Button>>
    /\ UNCHANGED <<tdc1_dev, dev_mode, device_path, integration_time,
                   acq_flag, logger, logger_thread, liveStart_Button,
                   selectLogfile_enabled, devCombobox, modesCombobox,
                   integrationSpinBox, ui_pc, plot_vars, ui_queue,
                   worker_vars, hist_vars, fs>>

\* update_data_from_thread, run for the data_is_logged signal at the head
\* of the main thread's queue
update_data_from_thread ==
    /\ ui_pc = "idle"
    /\ ui_queue # <<>> /\ Head(ui_queue).sig = "data"
    /\ LET b == UpdateBuffers([x |-> x, y1 |-> y1, y2 |-> y2, y3 |-> y3,
                               y4 |-> y4], Head(ui_queue).c)
       IN /\ x' = b.x /\ y1' = b.y1 /\ y2' = b.y2 /\ y3' = b.y3 /\ y4' = b.y4
    /\ delivered' = Append(delivered, Head(ui_queue).c)
    /\ ui_queue' = Tail(ui_queue)
    /\ UNCHANGED <<ui_vars, y0, g2_delivered, worker_vars, hist_vars, fs>>

\* updateHistogram, run for the histogram_logged signal at the head of the
\* main thread's queue
updateHistogram ==
    /\ ui_pc = "idle"
    /\ ui_queue # <<>> /\ Head(ui_queue).sig = "hist"
    /\ y0' = AddHistogram(y0, G2Histogram(Head(ui_queue).h))
    /\ g2_delivered' = Append(g2_delivered, Head(ui_queue).h)
    /\ ui_queue' = Tail(ui_queue)
    /\ UNCHANGED <<ui_vars, x, y1, y2, y3, y4, delivered, worker_vars,
                   hist_vars, fs>>

\* ---------------------------------------------------- logWorker: steps
\* log_which_data starts in the worker's thread: lines 52-64
log_which_data(w) ==
    /\ pc[w] = "queued"
    /\ active_flag' = [active_flag EXCEPT ![w] = TRUE]
    /\ pc' = [pc EXCEPT ![w] =
                IF args[w].dev_mode = "singles" THEN "entry"
                ELSE IF args[w].dev_mode = "pairs" THEN "while"
                ELSE "returned"]
    /\ UNCHANGED <<ui_vars, plot_vars, nworkers, int_time, args, polled,
                   hist_vars, ui_queue, fs>>

\* faulty variant: log_counts_data creating a default logfile whatever
\* log_flag says
log_counts_data_always_opens(w) ==
    /\ pc[w] = "entry"
    /\ IF active_flag[w] = TRUE
       THEN LET f == "a.csv" IN
            /\ fs' = IF fs[f].exists THEN fs
                     ELSE [fs EXCEPT ![f] = [exists |-> TRUE,
                                             lines |-> <<"header">>]]
            /\ fileops' = [fileops EXCEPT ![w] = @ + 1]
            /\ pc' = [pc EXCEPT ![w] = "while"]
       ELSE IF args[w].log_flag = FALSE
       THEN /\ pc' = [pc EXCEPT ![w] = "while"]
            /\ UNCHANGED <<fs, fileops>>
       ELSE /\ pc' = [pc EXCEPT ![w] = "finish"]
            /\ UNCHANGED <<fs, fileops>>
    /\ UNCHANGED <<ui_vars, plot_vars, nworkers, active_flag, int_time, args,
                   polled, polls_started, polls_done, emitted, rows, finished,
                   stop_seen, polls_total, ui_queue>>

\* log_counts_data, lines 70-76 and 88: choose the branch; the logging
\* branch opens the file and creates it with a header when it is missing
log_counts_data(w) ==
    /\ pc[w] = "entry"
    /\ IF args[w].log_flag = TRUE /\ active_flag[w] = TRUE
       THEN LET f == args[w].file_name IN
            /\ fs' = IF fs[f].exists THEN fs
                     ELSE [fs EXCEPT ![f] = [exists |-> TRUE,
                                             lines |-> <<"header">>]]
            /\ fileops' = [fileops EXCEPT ![w] = @ + 1]
            /\ pc' = [pc EXCEPT ![w] = "while"]
       ELSE IF args[w].log_flag = FALSE
       THEN /\ pc' = [pc EXCEPT ![w] = "while"]
            /\ UNCHANGED <<fs, fileops>>
       ELSE /\ pc' = [pc EXCEPT ![w] = "finish"]
            /\ UNCHANGED <<fs, fileops>>
    /\ UNCHANGED <<ui_vars, plot_vars, nworkers, active_flag, int_time, args,
                   polled, polls_started, polls_done, emitted, rows, finished,
                   stop_seen, polls_total, ui_queue>>

\* faulty variant: "while True:", which leaves the loop only at its break
loop_test_ignores_flag(w) ==
    /\ pc[w] = "while"
    /\ IF TRUE
       THEN /\ polls_total < MaxPolls
            /\ pc' = [pc EXCEPT ![w] = "polling"]
            /\ polls_started' = [polls_started EXCEPT ![w] = @ + 1]
            /\ polls_total' = polls_total + 1
       ELSE /\ pc' = [pc EXCEPT ![w] = "finish"]
            /\ UNCHANGED <<polls_started, polls_total>>
    /\ UNCHANGED <<ui_vars, plot_vars, nworkers, active_flag, int_time, args,
                   polled, polls_done, emitted, rows, fileops, finished,
                   stop_seen, ui_queue, fs>>

\* "while self.active_flag == True:" of the three loops; a true test goes on
\* into the device call (get_counts or count_g2)
loop_test(w) ==
    /\ pc[w] = "while"
    /\ IF active_flag[w] = TRUE
       THEN /\ polls_total < MaxPolls
            /\ pc' = [pc EXCEPT ![w] = "polling"]
            /\ polls_started' = [polls_started EXCEPT ![w] = @ + 1]
            /\ polls_total' = polls_total + 1
       ELSE /\ pc' = [pc EXCEPT ![w] = "finish"]
            /\ UNCHANGED <<polls_started, polls_total>>
    /\ UNCHANGED <<ui_vars, plot_vars, nworkers, active_flag, int_time, args,
                   polled, polls_done, emitted, rows, fileops, finished,
                   stop_seen, ui_queue, fs>>

\* tdc1_dev.get_counts(int_time) returns the counts c
get_counts(w, c) ==
    /\ pc[w] = "polling" /\ args[w].dev_mode = "singles"
    /\ polled' = [polled EXCEPT ![w].c = c]
    /\ polls_done' = [polls_done EXCEPT ![w] = @ + 1]
    /\ pc' = [pc EXCEPT ![w] = "emit"]
    /\ UNCHANGED <<ui_vars, plot_vars, nworkers, active_flag, int_time, args,
                   polls_started, emitted, rows, fileops, finished, stop_seen,
                   polls_total, ui_queue, fs>>

\* tdc1_dev.count_g2(int_time, ch_start=1, ch_stop=3) returns histogram k
count_g2(w, k) ==
    /\ pc[w] = "polling" /\ args[w].dev_mode = "pairs"
    /\ polled' = [polled EXCEPT ![w].h = k]
    /\ polls_done' = [polls_done EXCEPT ![w] = @ + 1]
    /\ pc' = [pc EXCEPT ![w] = "emit"]
    /\ UNCHANGED <<ui_vars, plot_vars, nworkers, active_flag, int_time, args,
                   polls_started, emitted, rows, fileops, finished, stop_seen,
                   polls_total, ui_queue, fs>>

\* data_is_logged.emit (lines 80, 93) or histogram_logged.emit (line 141):
\* a queued call of the connected MainWindow method
emit_signal(w) ==
    /\ pc[w] = "emit"
    /\ ui_queue' = Append(ui_queue,
           IF args[w].dev_mode = "singles"
           THEN [sig |-> "data", c |-> polled[w].c, h |-> 0]
           ELSE [sig |-> "hist", c |-> <<0, 0, 0, 0>>, h |-> polled[w].h])
    /\ emitted' = [emitted EXCEPT ![w] = @ + 1]
    /\ pc' = [pc EXCEPT ![w] =
                IF args[w].dev_mode = "singles" /\ args[w].log_flag = TRUE
                THEN "write" ELSE "ifbreak"]
    /\ UNCHANGED <<ui_vars, plot_vars, nworkers, active_flag, int_time, args,
                   polled, polls_started, polls_done, rows, fileops, finished,
                   stop_seen, polls_total, fs>>

\* lines 81-85: append one row to the logfile
write_row(w) ==
    /\ pc[w] = "write"
    /\ LET f == args[w].file_name IN
       fs' = [fs EXCEPT ![f] = [exists |-> TRUE,
                                lines |-> Append(fs[f].lines, "row")]]
    /\ rows' = [rows EXCEPT ![w] = @ + 1]
    /\ fileops' = [fileops EXCEPT ![w] = @ + 1]
    /\ pc' = [pc EXCEPT ![w] = "ifbreak"]
    /\ UNCHANGED <<ui_vars, plot_vars, nworkers, active_flag, int_time, args,
                   polled, polls_started, polls_done, emitted, finished,
                   stop_seen, polls_total, ui_queue>>

\* "if self.active_flag == False: break" at the end of the loop body
break_test(w) ==
    /\ pc[w] = "ifbreak"
    /\ pc' = [pc EXCEPT ![w] = IF active_flag[w] = FALSE THEN "finish"
                               ELSE "while"]
    /\ UNCHANGED <<ui_vars, plot_vars, nworkers, active_flag, int_time, args,
                   polled, hist_vars, ui_queue, fs>>

\* thread_finished.emit('Finished logging'); the slot returns
thread_finished(w) ==
    /\ pc[w] = "finish"
    /\ finished' = [finished EXCEPT ![w] = TRUE]
    /\ pc' = [pc EXCEPT ![w] = "done"]
    /\ UNCHANGED <<ui_vars, plot_vars, nworkers, active_flag, int_time, args,
                   polled, polls_started, polls_done, emitted, rows, fileops,
                   stop_seen, polls_total, ui_queue, fs>>

\* ------------------------------------------------------- specifications
Next ==
    \/ \E d \in DevTexts : selectDevice(d)
    \/ \E m \in ModeTexts : selectDeviceMode(m)
    \/ \E v \in SpinValues : update_intTime(v)
    \/ liveStart_stop
    \/ liveStart_wake
    \/ liveStart_start
    \/ \E f \in DialogResults : selectLogfile(f)
    \/ update_data_from_thread
    \/ updateHistogram
    \/ \E w \in Workers : log_which_data(w)
    \/ \E w \in Workers : log_counts_data(w)
    \/ \E w \in Workers : loop_test(w)
    \/ \E w \in Workers, c \in OneCounts : get_counts(w, c)
    \/ \E w \in Workers, k \in OneKind : count_g2(w, k)
    \/ \E w \in Workers : emit_signal(w)
    \/ \E w \in Workers : break_test(w)
    \/ \E w \in Workers : thread_finished(w)

Spec == Init /\ [][Next]_vars

\* The state right after a first Live Start (liveStart_start from a window
\* with device "COM4" selected), for a device mode m, a log_flag lf with its
\* logfile name, and a logfile that exists or not: the arguments of the
\* queued log_which_data call range over the slot's inputs.  The user
\* events so far: the device, the mode if any, the logfile if any, Live
\* Start.
InitWorker ==
    \E m \in Modes \cup {""}, lf \in BOOLEAN, present \in BOOLEAN :
    LET name == IF lf THEN "a.csv" ELSE ""
        dev == [NewDevice("COM4") EXCEPT !.mode = IF m = "" THEN "default"
                                                 ELSE m]
    IN
    /\ tdc1_dev = dev
    /\ dev_mode = m
    /\ device_path = "COM4"
    /\ integration_time = 1000
    /\ logfile_name = name
    /\ log_flag = lf
    /\ acq_flag = TRUE
    /\ logger = 1
    /\ logger_thread = 1
    /\ liveStart_Button = "Live Stop"
    /\ selectLogfile_Button = IF lf THEN "Unselect logfile"
                              ELSE "Select Logfile"
    /\ selectLogfile_enabled = FALSE
    /\ logfileLabel = name
    /\ devCombobox = "COM4"
    /\ modesCombobox = IF m = "" THEN NoModeText ELSE m
    /\ integrationSpinBox = SPIN_DEFAULT
    /\ x = <<>> /\ y1 = <<>> /\ y2 = <<>> /\ y3 = <<>> /\ y4 = <<>>
    /\ y0 = ZerosLike(X0)
    /\ ui_pc = "idle"
    /\ ui_queue = <<>>
    /\ nworkers = 1
    /\ pc = [w \in Workers |-> IF w = 1 THEN "queued" ELSE "none"]
    /\ active_flag = [w \in Workers |-> FALSE]
    /\ int_time = [w \in Workers |-> 1000]
    /\ args = [w \in Workers |->
                 IF w = 1
                 THEN [file_name |-> name, device_path |-> "COM4",
                       log_flag |-> lf, dev_mode |-> m, tdc1_dev |-> dev]
                 ELSE NoArgs]
    /\ polled = [w \in Workers |-> [c |-> <<0, 0, 0, 0>>, h |-> 0]]
    /\ fs = [f \in FileNames |->
               IF present THEN [exists |-> TRUE, lines |-> <<"header">>]
               ELSE [exists |-> FALSE, lines |-> <<>>]]
    /\ polls_started = [w \in Workers |-> 0]
    /\ polls_done = [w \in Workers |-> 0]
    /\ emitted = [w \in Workers |-> 0]
    /\ rows = [w \in Workers |-> 0]
    /\ fileops = [w \in Workers |-> 0]
    /\ finished = [w \in Workers |-> FALSE]
    /\ stop_seen = [w \in Workers |-> NotStopped]
    /\ polls_total = 0
    /\ delivered = <<>>
    /\ g2_delivered = <<>>
    /\ clicks = (IF m = "" THEN 2 ELSE 3) + (IF lf THEN 1 ELSE 0)

NextWorker ==
    \/ liveStart_stop
    \/ liveStart_wake
    \/ update_data_from_thread
    \/ updateHistogram
    \/ \E w \in Workers : log_which_data(w)
    \/ \E w \in Workers : log_counts_data(w)
    \/ \E w \in Workers : loop_test(w)
    \/ \E w \in Workers, c \in CountsSet : get_counts(w, c)
    \/ \E w \in Workers, k \in HistKinds : count_g2(w, k)
    \/ \E w \in Workers : emit_signal(w)
    \/ \E w \in Workers : write_row(w)
    \/ \E w \in Workers : break_test(w)
    \/ \E w \in Workers : thread_finished(w)

SpecWorker == InitWorker /\ [][NextWorker]_vars

\* A worker thread that can take its next step takes it, and every device
\* poll returns.
WorkerFairness ==
    \A w \in Workers :
        /\ WF_vars(log_which_data(w))
        /\ WF_vars(log_counts_data(w))
        /\ WF_vars(loop_test(w))
        /\ WF_vars(\E c \in CountsSet : get_counts(w, c))
        /\ WF_vars(\E k \in HistKinds : count_g2(w, k))
        /\ WF_vars(emit_signal(w))
        /\ WF_vars(write_row(w))
        /\ WF_vars(break_test(w))
        /\ WF_vars(thread_finished(w))

FairWorker == SpecWorker /\ WorkerFairness

\* Acquisitions in pairs mode without logfile, stopped and started again:
\* the histogram is accumulated, and reset by the next Live Start.
InitHist ==
    /\ InitWorker
    /\ dev_mode = "pairs"
    /\ log_flag = FALSE
    /\ \A f \in FileNames : ~fs[f].exists

NextHist ==
    \/ liveStart_stop
    \/ liveStart_wake
    \/ liveStart_start
    \/ updateHistogram
    \/ \E w \in Workers : log_which_data(w)
    \/ \E w \in Workers : loop_test(w)
    \/ \E w \in Workers, k \in HistKinds : count_g2(w, k)
    \/ \E w \in Workers : emit_signal(w)
    \/ \E w \in Workers : break_test(w)
    \/ \E w \in Workers : thread_finished(w)

SpecHist == InitHist /\ [][NextHist]_vars

\* The state of a singles acquisition without logfile whose worker has
\* polled, and whose window has plotted, the samples TickCounts(1) ..
\* TickCounts(Prefill), at most PLT_SAMPLES of them, so that none was
\* evicted yet; the worker is back at the test of its loop.
InitWindow ==
    LET dev == [NewDevice("COM4") EXCEPT !.mode = "singles"]
        n == Min(Prefill, PLT_SAMPLES)
        b == [x  |-> [i \in 1..n |-> i],
              y1 |-> [i \in 1..n |-> TickCounts(i)[1]],
              y2 |-> [i \in 1..n |-> TickCounts(i)[2]],
              y3 |-> [i \in 1..n |-> TickCounts(i)[3]],
              y4 |-> [i \in 1..n |-> TickCounts(i)[4]]]
    IN
    /\ tdc1_dev = dev
    /\ dev_mode = "singles"
    /\ device_path = "COM4"
    /\ integration_time = 1000
    /\ logfile_name = ""
    /\ log_flag = FALSE
    /\ acq_flag = TRUE
    /\ logger = 1
    /\ logger_thread = 1
    /\ liveStart_Button = "Live Stop"
    /\ selectLogfile_Button = "Select Logfile"
    /\ selectLogfile_enabled = FALSE
    /\ logfileLabel = ""
    /\ devCombobox = "COM4"
    /\ modesCombobox = "singles"
    /\ integrationSpinBox = SPIN_DEFAULT
    /\ x = b.x /\ y1 = b.y1 /\ y2 = b.y2 /\ y3 = b.y3 /\ y4 = b.y4
    /\ y0 = ZerosLike(X0)
    /\ ui_pc = "idle"
    /\ ui_queue = <<>>
    /\ nworkers = 1
    /\ pc = [w \in Workers |-> IF w = 1 THEN "while" ELSE "none"]
    /\ active_flag = [w \in Workers |-> w = 1]
    /\ int_time = [w \in Workers |-> 1000]
    /\ args = [w \in Workers |->
                 IF w = 1
                 THEN [file_name |-> "", device_path |-> "COM4",
                       log_flag |-> FALSE, dev_mode |-> "singles",
                       tdc1_dev |-> dev]
                 ELSE NoArgs]
    /\ polled = [w \in Workers |->
                   [c |-> IF w = 1 /\ n > 0 THEN TickCounts(n)
                          ELSE <<0, 0, 0, 0>>,
                    h |-> 0]]
    /\ fs = [f \in FileNames |-> [exists |-> FALSE, lines |-> <<>>]]
    /\ polls_started = [w \in Workers |-> IF w = 1 THEN n ELSE 0]
    /\ polls_done = [w \in Workers |-> IF w = 1 THEN n ELSE 0]
    /\ emitted = [w \in Workers |-> IF w = 1 THEN n ELSE 0]
    /\ rows = [w \in Workers |-> 0]
    /\ fileops = [w \in Workers |-> 0]
    /\ finished = [w \in Workers |-> FALSE]
    /\ stop_seen = [w \in Workers |-> NotStopped]
    /\ polls_total = 0
    /\ delivered = [i \in 1..n |-> TickCounts(i)]
    /\ g2_delivered = <<>>
    /\ clicks = 3

NextWindow ==
    \/ liveStart_stop
    \/ liveStart_wake
    \/ liveStart_start
    \/ update_data_from_thread
    \/ \E w \in Workers : log_which_data(w)
    \/ \E w \in Workers : log_counts_data(w)
    \/ \E w \in Workers : loop_test(w)
    \/ \E w \in Workers, c \in CountsSet : get_counts(w, c)
    \/ \E w \in Workers : emit_signal(w)
    \/ \E w \in Workers : break_test(w)
    \/ \E w \in Workers : thread_finished(w)

SpecWindow == InitWindow /\ [][NextWindow]_vars

\* ================================================================ claims
Abs(v) == IF v < 0 THEN -v ELSE v

\* the integer part of v / HistScale: the integer of largest magnitude that
\* does not pass v / HistScale, taken on v's side of zero
IntegerPart(v) ==
    CHOOSE n \in -Abs(v)..Abs(v) :
        /\ n * v >= 0
        /\ Abs(n) * HistScale <= Abs(v)
        /\ Abs(v) < (Abs(n) + 1) * HistScale

\* per histogram kind and bin, the integer part of the delivered value
IntegerHistogram ==
    [k \in HistKinds |-> [i \in 1..Len(X0) |-> IntegerPart(G2Histogram(k)[i])]]

\* the 500 bins after n1 histograms of kind 1 and n2 of kind 2: each bin is
\* the sum of the integer parts of the values delivered for it
AccumulatedHistogram ==
    [n1 \in 0..MaxPolls, n2 \in 0..MaxPolls |->
        [i \in 1..500 |-> n1 * IntegerHistogram[1][i]
                           + n2 * IntegerHistogram[2][i]]]

\* how many of the delivered histograms are of kind k
Deliveries(kinds, k) == Cardinality({j \in 1..Len(kinds) : kinds[j] = k})

\* C1: a worker that Live Stop has stopped leaves its polling loop and emits
\* thread_finished, in every interleaving of the click with the worker's
\* queued slot.  A worker leaves its loop only by reading active_flag =
\* False, and after its Live Stop nothing lowers the flag again (the window
\* drops its reference), so the claim needs every worker that Live Stop has
\* stopped to have its flag down whenever it is inside its loop.
C1_StoppedWorkerLeavesLoop ==
    \A w \in Workers :
        (stop_seen[w].seen # "no" /\ pc[w] \in LoopPcs)
            => active_flag[w] = FALSE

\* C2: once the Live Stop branch of liveStart has completed, no worker is
\* still inside a polling loop; hence at no time are two workers inside
\* their polling loops.
C2_SingleWorker ==
    /\ (ui_pc = "idle" /\ acq_flag = FALSE)
           => \A w \in Workers : pc[w] \notin LoopPcs
    /\ Cardinality({w \in Workers : pc[w] \in LoopPcs}) <= 1

\* C3: the buffers x, y1, y2, y3 and y4 always have the same length, and
\* that length never exceeds PLT_SAMPLES.
C3_BoundedWindow ==
    /\ Len(y1) = Len(x) /\ Len(y2) = Len(x)
    /\ Len(y3) = Len(x) /\ Len(y4) = Len(x)
    /\ Len(x) <= PLT_SAMPLES

\* a sample was delivered to a full window, which is full again
C3_Witness ==
    /\ Len(delivered) = PLT_SAMPLES + 1
    /\ Len(x) = PLT_SAMPLES /\ Len(y4) = PLT_SAMPLES

\* C4: a worker started without logfile (log_flag False) emits every sample
\* it polls and never opens, creates or writes a file.
C4_PlotWithoutLogging ==
    \A w \in Workers :
        (pc[w] # "none" /\ args[w].log_flag = FALSE) =>
            /\ fileops[w] = 0
            /\ rows[w] = 0
            /\ emitted[w] = IF pc[w] = "emit" THEN polls_done[w] - 1
                            ELSE polls_done[w]
            /\ polls_done[w] = IF pc[w] = "polling" THEN polls_started[w] - 1
                               ELSE polls_started[w]

\* a worker without logfile has polled and emitted two samples and finished
C4_Witness ==
    \E w \in Workers :
        /\ args[w].log_flag = FALSE /\ finished[w]
        /\ polls_done[w] = 2 /\ emitted[w] = 2
        /\ \A f \in FileNames : ~fs[f].exists

C6_NoChangeWhileAcquiring ==
    [][(/\ acq_flag = TRUE
        /\ \/ \E d \in DevTexts : selectDevice(d)
           \/ \E m \in ModeTexts : selectDeviceMode(m))
       => UNCHANGED <<tdc1_dev, device_path, dev_mode, logfile_name,
                      integration_time, logger, logger_thread,
                      x, y1, y2, y3, y4, y0>>]_vars

\* during an acquisition the device combo box was set back to its
\* placeholder and the mode combo box changed, and a plotted sample, the
\* device, its path and the mode are still there
C6_Witness ==
    /\ acq_flag = TRUE
    /\ devCombobox = NoDevText /\ device_path = "COM4" /\ tdc1_dev.open
    /\ modesCombobox # dev_mode /\ dev_mode = "singles"
    /\ Len(x) = 1

\* C7: y0 has exactly 500 bins, and each bin is the sum, over the histograms
\* delivered since the last resetDataAndPlots, of the integer part of that
\* bin's value; after a reset every bin is 0.
C7_HistogramAccumulation ==
    /\ Len(y0) = 500
    /\ y0 = AccumulatedHistogram[Deliveries(g2_delivered, 1),
                                 Deliveries(g2_delivered, 2)]

\* two histograms, one with negative bins, were accumulated
C7_Witness ==
    /\ Len(g2_delivered) = 2
    /\ g2_delivered[1] # g2_delivered[2]
    /\ \E i \in 1..Len(y0) : y0[i] < 0

\* C8: from the window as initialised, clicking the select-logfile button
\* and choosing a non-empty file name leaves log_flag True, _logfile_name
\* equal to the chosen name and the button showing 'Unselect logfile'.
C8_SelectLogfileEnablesLogging ==
    [][\A f \in FileNames :
          (clicks = 0 /\ selectLogfile(f))
              => /\ log_flag' = TRUE
                 /\ logfile_name' = f
                 /\ selectLogfile_Button' = "Unselect logfile"]_vars

\* C9: after n >= 1 deliveries since the last reset, with m = min(n, 500),
\* each y_k holds channel k of the last m samples in arrival order and x
\* holds n - m + 1 .. n.
C9_WindowContents ==
    LET n == Len(delivered)
        m == Min(n, 500)
    IN n >= 1 =>
        /\ x  = [i \in 1..m |-> n - m + i]
        /\ y1 = [i \in 1..m |-> delivered[n - m + i][1]]
        /\ y2 = [i \in 1..m |-> delivered[n - m + i][2]]
        /\ y3 = [i \in 1..m |-> delivered[n - m + i][3]]
        /\ y4 = [i \in 1..m |-> delivered[n - m + i][4]]

\* the oldest sample was evicted: the window starts at sample number 2
C9_Witness ==
    /\ Len(delivered) > PLT_SAMPLES
    /\ x[1] = Len(delivered) - PLT_SAMPLES + 1
    /\ y4[Len(y4)] = delivered[Len(delivered)][4]

====
